---- MODULE Spec2Model ----
(***************************************************************************)
(* Task-management REST service (express + mongoose + jsonwebtoken).       *)
(* State: the users and tasks collections, the process environment         *)
(* (JWT_SECRET), the clock, and the last request/response pair.            *)
(* One action per route: the route's whole middleware chain                *)
(* (authenticate, validate, controller).                                   *)
(***************************************************************************)
EXTENDS Integers, Sequences, FiniteSets, TLC

VARIABLES users, tasks, nextTaskId, origin, registered, now, secret, resp, served,
          inflight, changed

vars == <<users, tasks, nextTaskId, origin, registered, now, secret, resp, served,
          inflight, changed>>

(* ------------------------------ bounds ------------------------------- *)
MaxUsers == 2
MaxTasks == 1
MaxTime == 1
MaxProcs == 2
SeedUsers == 3

(* JWT_EXPIRES_IN ('7d' by default), in clock ticks of the model *)
JWT_EXPIRES_IN == 1

(* ------------------------------ values ------------------------------- *)
NoUser == 0
NoTask == 0
Null == -1

(* enum TaskStatus / enum TaskPriority *)
TaskStatus == {"pending", "in_progress", "completed", "cancelled"}
TaskPriority == {"low", "medium", "high", "urgent"}

NoToken == [userId |-> NoUser, exp |-> 0, sig |-> "none"]
NoBody == [none |-> TRUE]

(* ------------------------- password hasher --------------------------- *)
(* User model: the password is stored as a salted one-way digest and      *)
(* comparePassword verifies a candidate against it.                       *)
hash(plain, salt) == <<"digest", salt, plain>>

comparePassword(candidate, digest) == digest = hash(candidate, digest[2])

(* User pre-save step: the password is hashed when it was modified *)
userPreSave(user, passwordModified, salt) ==
  IF passwordModified
  THEN [user EXCEPT !.password = hash(user.password, salt)]
  ELSE user

(* ---------------------------- collections ---------------------------- *)
(* users is indexed by _id 1..Len(users); no operation removes a user *)
UserExists(id) == id \in 1..Len(users)

findUserById(id) == IF UserExists(id) THEN id ELSE NoUser

(* User.findOne({ email }) *)
findUserByEmail(email) ==
  IF \E i \in 1..Len(users) : users[i].email = email
  THEN CHOOSE i \in 1..Len(users) : users[i].email = email
  ELSE NoUser

(* User.findOne({ $or: [{ email }, { username }] }) *)
findUserByEmailOrUsername(email, username) ==
  IF \E i \in 1..Len(users) : users[i].email = email \/ users[i].username = username
  THEN CHOOSE i \in 1..Len(users) : users[i].email = email \/ users[i].username = username
  ELSE NoUser

(* ------------------------------ tokens ------------------------------- *)
jwtSignExpired(userId) == [userId |-> userId, exp |-> now, sig |-> "good"]

(* jwt.sign({ userId }, JWT_SECRET, { expiresIn }) *)
jwtSign(userId) == [userId |-> userId, exp |-> now + JWT_EXPIRES_IN, sig |-> "good"]

(* jwt.verify: structure, then signature, then expiry.  The result is the *)
(* class of the error thrown, or "ok".                                    *)
jwtVerify(token) ==
  IF token.sig = "malformed" THEN "JsonWebTokenError"
  ELSE IF token.sig # "good" THEN "JsonWebTokenError"
  ELSE IF now >= token.exp THEN "TokenExpiredError"
  ELSE "ok"

(* jsonwebtoken: TokenExpiredError.prototype =                            *)
(*   Object.create(JsonWebTokenError.prototype)                           *)
instanceOf(err, class) ==
  \/ err = class
  \/ err = "TokenExpiredError" /\ class = "JsonWebTokenError"

(* generateToken: throws when JWT_SECRET is not defined *)
generateToken(userId) ==
  IF ~secret THEN [ok |-> FALSE, token |-> NoToken]
  ELSE [ok |-> TRUE, token |-> jwtSign(userId)]

(* --------------------------- the response ---------------------------- *)
(* The request as received and the JSON envelope sent back:               *)
(*   op, tok, id, body  - route, presented token, :id, request body       *)
(*   status, msg        - HTTP status and message                         *)
(*   user               - req.user bound by authenticate (NoUser if none) *)
(*   ran                - the controller of the route was entered         *)
(*   token              - issued token                                     *)
(*   data, udata        - ids of the tasks / users returned or counted     *)
Request(op, tok, id, body) ==
  [op |-> op, tok |-> tok, id |-> id, body |-> body,
   status |-> 0, msg |-> "", user |-> NoUser, ran |-> FALSE,
   token |-> NoToken, data |-> {}, udata |-> {}]

(* errorHandler: an AppError becomes { success: false, message } with its *)
(* statusCode                                                             *)
AppError(req, message, statusCode) ==
  [req EXCEPT !.status = statusCode, !.msg = message]

(* errorHandler: any other error becomes a 500 *)
InternalError(req) == [req EXCEPT !.status = 500, !.msg = "Internal Server Error"]

(* ---------------------------- middleware ----------------------------- *)
(* req.header('Authorization')?.replace('Bearer ', '') *)
extractToken(hdr) ==
  IF hdr.scheme = "none" THEN NoToken ELSE hdr.token

authenticateError(req, err) ==
  IF instanceOf(err, "JsonWebTokenError") THEN AppError(req, "Invalid token", 401)
  ELSE IF instanceOf(err, "TokenExpiredError") THEN AppError(req, "Token expired", 401)
  ELSE InternalError(req)

authenticateAnyAccount(req) ==
  IF req.tok = NoToken
  THEN AppError(req, "Access denied. No token provided.", 401)
  ELSE IF ~secret
  THEN AppError(req, "JWT secret not configured", 500)
  ELSE IF jwtVerify(req.tok) # "ok"
  THEN authenticateError(req, jwtVerify(req.tok))
  ELSE IF findUserById(req.tok.userId) = NoUser
  THEN AppError(req, "User not found", 404)
  ELSE [req EXCEPT !.user = req.tok.userId]

(* authenticate: the request with req.user bound and next() called        *)
(* (status 0), or the error response                                      *)
authenticate(req) ==
  IF req.tok = NoToken
  THEN AppError(req, "Access denied. No token provided.", 401)
  ELSE IF ~secret
  THEN AppError(req, "JWT secret not configured", 500)
  ELSE IF jwtVerify(req.tok) # "ok"
  THEN authenticateError(req, jwtVerify(req.tok))
  ELSE IF findUserById(req.tok.userId) = NoUser
  THEN AppError(req, "User not found", 404)
  ELSE IF ~users[req.tok.userId].isActive
  THEN AppError(req, "User account is deactivated", 403)
  ELSE [req EXCEPT !.user = req.tok.userId]

Passed(req) == req.status = 0

(* ---------------------------- validation ----------------------------- *)
Email(i) == "user" \o ToString(i) \o "@x.com"
Username(i) == "user" \o ToString(i)

Usernames == {Username(i) : i \in 1..MaxUsers}
Emails == {Email(i) : i \in 1..MaxUsers}
Passwords == {"secret1", "secret2"}
FirstNames == {"Al", "Bo"}
Titles == {"T", "T2"}

(* well-formed ids (24 hex digits): those of the users and one of nobody *)
ObjectIds == 1..(SeedUsers + 1)

(* A Joi object schema: the values each declared key accepts, and the     *)
(* required keys (of the task schemas: the keys the Task model of this    *)
(* module carries)                                                        *)
registerSchema ==
  [allowed |-> [username |-> Usernames, email |-> Emails, password |-> Passwords,
                firstName |-> FirstNames],
   required |-> {"username", "email", "password", "firstName"}]

loginSchema ==
  [allowed |-> [email |-> Emails, password |-> Passwords],
   required |-> {"email", "password"}]

taskSchema ==
  [allowed |-> [title |-> Titles, status |-> TaskStatus, priority |-> TaskPriority,
                assignedTo |-> ObjectIds],
   required |-> {"title"}]

updateTaskSchema ==
  [allowed |-> [title |-> Titles, status |-> TaskStatus, priority |-> TaskPriority],
   required |-> {}]

(* schema.validate(body, { allowUnknown: false, stripUnknown: true }):    *)
(* unknown keys are stripped from the returned value and raise no error;  *)
(* the input object is not modified                                       *)
JoiValidate(schema, body) ==
  LET declared == DOMAIN schema.allowed
      known == DOMAIN body \cap declared
  IN [error |-> \/ \E k \in known : body[k] \notin schema.allowed[k]
                \/ \E k \in schema.required : k \notin DOMAIN body,
      value |-> [k \in known |-> body[k]]]

(* validate(schema): only the error of the result is used; req.body is    *)
(* passed on as received                                                  *)
validate(schema, req) ==
  IF JoiValidate(schema, req.body).error
  THEN AppError(req, "validation failed", 400)
  ELSE req

Enter(req) == [req EXCEPT !.ran = TRUE]

(* ------------------------- auth controller --------------------------- *)
(* User model: unique indexes on email and on username; an insert that    *)
(* repeats either is refused by the database with a duplicate-key error   *)
uniqueIndexViolated(user) ==
  \E i \in 1..Len(users) : users[i].email = user.email \/ users[i].username = user.username

(* errorHandler: a duplicate-key error of the database becomes the        *)
(* Conflict answer of the pre-check                                       *)
DuplicateKeyError(req) ==
  AppError(req, "User with this email or username already exists", 400)

(* register, first half: the existence query and its early return *)
registerCheck(req) ==
  LET b == req.body
      existingUser == findUserByEmailOrUsername(b.email, b.username)
  IN IF existingUser # NoUser
     THEN AppError(req, "User with this email or username already exists", 400)
     ELSE req

registerSaveUnawaited(req, salt) ==
  LET b == req.body
      user == userPreSave([username |-> b.username, email |-> b.email,
                           password |-> b.password, firstName |-> b.firstName,
                           isActive |-> TRUE, lastLogin |-> Null], TRUE, salt)
      saved == IF uniqueIndexViolated(user) THEN users ELSE Append(users, user)
      t == generateToken(Len(users) + 1)
  IN IF ~t.ok
     THEN [res |-> InternalError(req), users |-> saved]
     ELSE [res |-> [req EXCEPT !.status = 201, !.msg = "User registered successfully",
                               !.udata = {Len(users) + 1}, !.token = t.token],
           users |-> saved]

(* register, second half: new User(...), await user.save(), generateToken *)
(* and the 201 answer; whatever is thrown goes to next(error)             *)
registerSave(req, salt) ==
  LET b == req.body
      user == userPreSave([username |-> b.username, email |-> b.email,
                           password |-> b.password, firstName |-> b.firstName,
                           isActive |-> TRUE, lastLogin |-> Null], TRUE, salt)
      saved == Append(users, user)
      t == generateToken(Len(saved))
  IN IF uniqueIndexViolated(user)
     THEN [res |-> DuplicateKeyError(req), users |-> users]
     ELSE IF ~t.ok
     THEN [res |-> InternalError(req), users |-> saved]
     ELSE [res |-> [req EXCEPT !.status = 201, !.msg = "User registered successfully",
                               !.udata = {Len(saved)}, !.token = t.token],
           users |-> saved]

register(req, salt) ==
  LET checked == registerCheck(req)
  IN IF checked.status # 0
     THEN [res |-> checked, users |-> users]
     ELSE registerSave(req, salt)

loginAnyAccount(req) ==
  LET b == req.body
      u == findUserByEmail(b.email)
      saved == [users EXCEPT ![u] = userPreSave([users[u] EXCEPT !.lastLogin = now],
                                                FALSE, "")]
      t == generateToken(u)
  IN IF u = NoUser
     THEN [res |-> AppError(req, "Invalid email or password", 401), users |-> users]
     ELSE IF ~comparePassword(b.password, users[u].password)
     THEN [res |-> AppError(req, "Invalid email or password", 401), users |-> users]
     ELSE IF ~t.ok
     THEN [res |-> InternalError(req), users |-> saved]
     ELSE [res |-> [req EXCEPT !.status = 200, !.msg = "Login successful",
                               !.udata = {u}, !.token = t.token],
           users |-> saved]

login(req) ==
  LET b == req.body
      u == findUserByEmail(b.email)
      saved == [users EXCEPT ![u] = userPreSave([users[u] EXCEPT !.lastLogin = now],
                                                FALSE, "")]
      t == generateToken(u)
  IN IF u = NoUser
     THEN [res |-> AppError(req, "Invalid email or password", 401), users |-> users]
     ELSE IF ~users[u].isActive
     THEN [res |-> AppError(req, "Account is deactivated", 403), users |-> users]
     ELSE IF ~comparePassword(b.password, users[u].password)
     THEN [res |-> AppError(req, "Invalid email or password", 401), users |-> users]
     ELSE IF ~t.ok
     THEN [res |-> InternalError(req), users |-> saved]
     ELSE [res |-> [req EXCEPT !.status = 200, !.msg = "Login successful",
                               !.udata = {u}, !.token = t.token],
           users |-> saved]

getProfile(req) ==
  IF req.user = NoUser
  THEN [res |-> AppError(req, "User not found", 404), users |-> users]
  ELSE [res |-> [req EXCEPT !.status = 200, !.udata = {req.user}], users |-> users]

(* findByIdAndUpdate(req.user._id, { ...(firstName && { firstName }) }) *)
updateProfile(req) ==
  LET b == req.body
      updated == IF "firstName" \in DOMAIN b
                 THEN [users EXCEPT ![req.user].firstName = b.firstName]
                 ELSE users
  IN IF req.user = NoUser
     THEN [res |-> AppError(req, "User not found", 404), users |-> users]
     ELSE IF findUserById(req.user) = NoUser
     THEN [res |-> AppError(req, "User not found", 404), users |-> users]
     ELSE [res |-> [req EXCEPT !.status = 200, !.msg = "Profile updated successfully",
                               !.udata = {req.user}],
           users |-> updated]

changePasswordUnverified(req, salt) ==
  LET b == req.body
      u == findUserById(req.user)
      saved == [users EXCEPT ![u] = userPreSave([users[u] EXCEPT !.password = b.newPassword],
                                                TRUE, salt)]
  IN IF req.user = NoUser
     THEN [res |-> AppError(req, "User not found", 404), users |-> users]
     ELSE IF u = NoUser
     THEN [res |-> AppError(req, "User not found", 404), users |-> users]
     ELSE [res |-> [req EXCEPT !.status = 200, !.msg = "Password changed successfully"],
           users |-> saved]

changePassword(req, salt) ==
  LET b == req.body
      u == findUserById(req.user)
      saved == [users EXCEPT ![u] = userPreSave([users[u] EXCEPT !.password = b.newPassword],
                                                TRUE, salt)]
  IN IF req.user = NoUser
     THEN [res |-> AppError(req, "User not found", 404), users |-> users]
     ELSE IF u = NoUser
     THEN [res |-> AppError(req, "User not found", 404), users |-> users]
     ELSE IF ~comparePassword(b.currentPassword, users[u].password)
     THEN [res |-> AppError(req, "Current password is incorrect", 400), users |-> users]
     ELSE [res |-> [req EXCEPT !.status = 200, !.msg = "Password changed successfully"],
           users |-> saved]

(* ------------------------- user controller --------------------------- *)
(* User.find({ isActive: true }) *)
getAllUsers(req) ==
  [res |-> [req EXCEPT !.status = 200,
                       !.udata = {i \in 1..Len(users) : users[i].isActive}],
   users |-> users]

(* findByIdAndUpdate(req.user._id, { isActive: false }) *)
deactivateUser(req) ==
  IF req.user = NoUser
  THEN [res |-> AppError(req, "User not found", 404), users |-> users]
  ELSE IF findUserById(req.user) = NoUser
  THEN [res |-> AppError(req, "User not found", 404), users |-> users]
  ELSE [res |-> [req EXCEPT !.status = 200, !.msg = "Account deactivated successfully"],
        users |-> [users EXCEPT ![req.user].isActive = FALSE]]

(* --------------------------- task model ------------------------------ *)
TaskExists(id) == id \in DOMAIN tasks

(* taskSchema.pre('save'): runs on document.save() only; statusModified   *)
(* is this.isModified('status')                                           *)
taskPreSave(task, statusModified) ==
  IF statusModified
  THEN IF task.status = "completed" /\ task.completedAt = Null
       THEN [task EXCEPT !.completedAt = now]
       ELSE IF task.status # "completed"
       THEN [task EXCEPT !.completedAt = Null]
       ELSE task
  ELSE task

(* the paths of the Task schema an update document can set (strict mode   *)
(* drops every other key)                                                 *)
TaskPaths == {"title", "status", "priority", "completedAt", "assignedTo", "createdBy"}

(* Task.findByIdAndUpdate(id, updates): $set of the schema paths present  *)
(* in updates; query middleware only, the pre('save') hook does not run   *)
applyUpdate(task, updates) ==
  [k \in DOMAIN task |->
     IF k \in DOMAIN updates /\ k \in TaskPaths THEN updates[k] ELSE task[k]]

(* { $or: [{ assignedTo: user }, { createdBy: user }] } *)
visibleTo(task, user) == task.assignedTo = user \/ task.createdBy = user

findAnyTask(id, user) == IF TaskExists(id) THEN id ELSE NoTask

(* Task.findOne({ _id: id, $or: [...] }) *)
findVisibleTask(id, user) ==
  IF TaskExists(id) /\ visibleTo(tasks[id], user) THEN id ELSE NoTask

(* Task.findOne({ _id: id, createdBy: user }) *)
findCreatedTask(id, user) ==
  IF TaskExists(id) /\ tasks[id].createdBy = user THEN id ELSE NoTask

Same == [tasks |-> tasks, nextTaskId |-> nextTaskId, origin |-> origin]

(* ------------------------- task controller --------------------------- *)
createTaskUnverified(req) ==
  LET b == req.body
      assigneeId == IF "assignedTo" \in DOMAIN b THEN b.assignedTo ELSE req.user
      task == taskPreSave([title |-> b.title,
                           status |-> "pending",
                           priority |-> IF "priority" \in DOMAIN b THEN b.priority
                                        ELSE "medium",
                           completedAt |-> Null,
                           assignedTo |-> assigneeId,
                           createdBy |-> req.user], TRUE)
      id == nextTaskId
  IN IF req.user = NoUser
     THEN [res |-> AppError(req, "User not found", 404)] @@ Same
     ELSE [res |-> [req EXCEPT !.status = 201, !.msg = "Task created successfully",
                               !.id = id, !.data = {id}],
           tasks |-> (id :> task) @@ tasks,
           nextTaskId |-> id + 1,
           origin |-> (id :> req.user) @@ origin]

createTask(req) ==
  LET b == req.body
      assigneeId == IF "assignedTo" \in DOMAIN b THEN b.assignedTo ELSE req.user
      task == taskPreSave([title |-> b.title,
                           status |-> "pending",
                           priority |-> IF "priority" \in DOMAIN b THEN b.priority
                                        ELSE "medium",
                           completedAt |-> Null,
                           assignedTo |-> assigneeId,
                           createdBy |-> req.user], TRUE)
      id == nextTaskId
  IN IF req.user = NoUser
     THEN [res |-> AppError(req, "User not found", 404)] @@ Same
     ELSE IF findUserById(assigneeId) = NoUser
     THEN [res |-> AppError(req, "Assigned user not found", 404)] @@ Same
     ELSE [res |-> [req EXCEPT !.status = 201, !.msg = "Task created successfully",
                               !.id = id, !.data = {id}],
           tasks |-> (id :> task) @@ tasks,
           nextTaskId |-> id + 1,
           origin |-> (id :> req.user) @@ origin]

getTask(req) ==
  LET t == findVisibleTask(req.id, req.user)
  IN IF req.user = NoUser
     THEN [res |-> AppError(req, "User not found", 404)] @@ Same
     ELSE IF t = NoTask
     THEN [res |-> AppError(req, "Task not found", 404)] @@ Same
     ELSE [res |-> [req EXCEPT !.status = 200, !.data = {t}]] @@ Same

(* updateTask, first half: the req.user test and the permission query *)
updateTaskFind(req) ==
  LET t == findVisibleTask(req.id, req.user)
  IN IF req.user = NoUser
     THEN AppError(req, "User not found", 404)
     ELSE IF t = NoTask
     THEN AppError(req, "Task not found", 404)
     ELSE req

(* updateTask, second half: Task.findByIdAndUpdate(id, updates), which    *)
(* selects by _id alone and resolves to null when no task has that id,    *)
(* and the answer, sent whatever it resolved to                           *)
updateTaskWrite(req) ==
  IF TaskExists(req.id)
  THEN [res |-> [req EXCEPT !.status = 200, !.msg = "Task updated successfully",
                            !.data = {req.id}],
        tasks |-> [tasks EXCEPT ![req.id] = applyUpdate(tasks[req.id], req.body)],
        nextTaskId |-> nextTaskId,
        origin |-> origin]
  ELSE [res |-> [req EXCEPT !.status = 200, !.msg = "Task updated successfully"]] @@ Same

updateTask(req) ==
  LET found == updateTaskFind(req)
  IN IF found.status # 0
     THEN [res |-> found] @@ Same
     ELSE updateTaskWrite(req)

deleteTask(req) ==
  LET t == findCreatedTask(req.id, req.user)
  IN IF req.user = NoUser
     THEN [res |-> AppError(req, "User not found", 404)] @@ Same
     ELSE IF t = NoTask
     THEN [res |-> AppError(req, "Task not found or you are not authorized to delete it",
                            404)] @@ Same
     ELSE [res |-> [req EXCEPT !.status = 200, !.msg = "Task deleted successfully"],
           tasks |-> [i \in DOMAIN tasks \ {t} |-> tasks[i]],
           nextTaskId |-> nextTaskId,
           origin |-> origin]

getTasksFilterReplaced(req) ==
  LET q == req.body
      match(t) == /\ ({"assignedTo", "createdBy"} \cap DOMAIN q = {}
                        => visibleTo(t, req.user))
                  /\ ("status" \in DOMAIN q => t.status = q.status)
                  /\ ("priority" \in DOMAIN q => t.priority = q.priority)
                  /\ ("assignedTo" \in DOMAIN q => t.assignedTo = q.assignedTo)
                  /\ ("createdBy" \in DOMAIN q => t.createdBy = q.createdBy)
                  /\ ("search" \in DOMAIN q => t.title = q.search)
  IN IF req.user = NoUser
     THEN [res |-> AppError(req, "User not found", 404)] @@ Same
     ELSE [res |-> [req EXCEPT !.status = 200,
                               !.data = {i \in DOMAIN tasks : match(tasks[i])}]] @@ Same

(* Task.find(filter) and Task.countDocuments(filter): the $or of the      *)
(* caller and, beside it, the query's own keys (req.query is carried in   *)
(* body; $text search is a match of the title)                            *)
getTasks(req) ==
  LET q == req.body
      match(t) == /\ visibleTo(t, req.user)
                  /\ ("status" \in DOMAIN q => t.status = q.status)
                  /\ ("priority" \in DOMAIN q => t.priority = q.priority)
                  /\ ("assignedTo" \in DOMAIN q => t.assignedTo = q.assignedTo)
                  /\ ("createdBy" \in DOMAIN q => t.createdBy = q.createdBy)
                  /\ ("search" \in DOMAIN q => t.title = q.search)
  IN IF req.user = NoUser
     THEN [res |-> AppError(req, "User not found", 404)] @@ Same
     ELSE [res |-> [req EXCEPT !.status = 200,
                               !.data = {i \in DOMAIN tasks : match(tasks[i])}]] @@ Same

(* Task.aggregate([{ $match: { $or: [...] } }, ...]) *)
getTaskStats(req) ==
  IF req.user = NoUser
  THEN [res |-> AppError(req, "User not found", 404)] @@ Same
  ELSE [res |-> [req EXCEPT !.status = 200,
                            !.data = {i \in DOMAIN tasks : visibleTo(tasks[i], req.user)}]]
       @@ Same

(* user controller: task counts of any user id *)
getUser(req) ==
  IF findUserById(req.id) = NoUser
  THEN [res |-> AppError(req, "User not found", 404), users |-> users]
  ELSE [res |-> [req EXCEPT !.status = 200, !.udata = {req.id},
                            !.data = {i \in DOMAIN tasks : \/ tasks[i].assignedTo = req.id
                                                           \/ tasks[i].createdBy = req.id}],
        users |-> users]

(* Task.find({ assignedTo: id, status?, priority? }) *)
getUserTasks(req) ==
  LET q == req.body
      match(t) == /\ t.assignedTo = req.id
                  /\ ("status" \in DOMAIN q => t.status = q.status)
                  /\ ("priority" \in DOMAIN q => t.priority = q.priority)
  IN IF findUserById(req.id) = NoUser
     THEN [res |-> AppError(req, "User not found", 404), users |-> users]
     ELSE [res |-> [req EXCEPT !.status = 200, !.udata = {req.id},
                               !.data = {i \in DOMAIN tasks : match(tasks[i])}],
           users |-> users]

(* ------------------------------ routers ------------------------------ *)
noGate(req) == req

(* router.use(authenticate) of the tasks router and of the users router,  *)
(* and the authenticate argument of the protected auth routes             *)
tasksRouterUse(req) == authenticate(req)

usersRouterUse(req) == authenticate(req)

authRouteGate(req) == authenticate(req)

(* a middleware runs only if the previous one called next() *)
Then(req, mw(_)) == IF Passed(req) THEN mw(req) ELSE req

(* registered: the credentials of every registration answered 201 whose   *)
(* account has since seen no password change and no deactivation          *)
registeredAfter(res) ==
  IF res.op = "POST /api/auth/register" /\ res.status = 201
  THEN registered \cup {[user |-> u, email |-> res.body.email,
                         password |-> res.body.password] : u \in res.udata}
  ELSE IF res.op \in {"PUT /api/auth/change-password", "PUT /api/users/deactivate"}
          /\ res.status = 200
  THEN {c \in registered : c.user # res.user}
  ELSE registered

(* changed: for each user, the last change of password answered 200: the  *)
(* password it replaced, the new one, and when                            *)
changedAfter(res) ==
  IF res.op = "PUT /api/auth/change-password" /\ res.status = 200
  THEN {c \in changed : c.user # res.user}
         \cup {[user |-> res.user, old |-> res.body.currentPassword,
                new |-> res.body.newPassword, at |-> now]}
  ELSE changed

UserStep(out) ==
  /\ users' = out.users
  /\ registered' = registeredAfter(out.res)
  /\ changed' = changedAfter(out.res)
  /\ resp' = out.res
  /\ served' = 1 - served
  /\ UNCHANGED <<tasks, nextTaskId, origin, now, secret, inflight>>

TaskStep(out) ==
  /\ tasks' = out.tasks
  /\ nextTaskId' = out.nextTaskId
  /\ origin' = out.origin
  /\ resp' = out.res
  /\ served' = 1 - served
  /\ UNCHANGED <<users, registered, now, secret, inflight, changed>>

Rejected(req) == [res |-> req, users |-> users]

RejectedT(req) == [res |-> req] @@ Same

(* app.get('/health', ...) *)
Health ==
  /\ resp' = [Request("GET /health", NoToken, NoTask, NoBody) EXCEPT !.status = 200]
  /\ served' = 1 - served
  /\ UNCHANGED <<users, tasks, nextTaskId, origin, registered, now, secret, inflight,
                 changed>>

(* router.post('/register', validate(registerSchema), register) *)
PostRegister(body, salt) ==
  LET r == validate(registerSchema,
                    Request("POST /api/auth/register", NoToken, NoTask, body))
      out == IF Passed(r) THEN register(Enter(r), salt) ELSE Rejected(r)
  IN /\ Len(out.users) <= MaxUsers
     /\ UserStep(out)

(* router.post('/login', validate(loginSchema), login) *)
PostLogin(body) ==
  LET r == validate(loginSchema, Request("POST /api/auth/login", NoToken, NoTask, body))
  IN UserStep(IF Passed(r) THEN login(Enter(r)) ELSE Rejected(r))

(* router.get('/profile', authenticate, getProfile) *)
GetProfile(hdr) ==
  LET r == authRouteGate(Request("GET /api/auth/profile", extractToken(hdr), NoTask, NoBody))
  IN UserStep(IF Passed(r) THEN getProfile(Enter(r)) ELSE Rejected(r))

(* router.put('/profile', authenticate, updateProfile) *)
PutProfile(hdr, body) ==
  LET r == authRouteGate(Request("PUT /api/auth/profile", extractToken(hdr), NoTask, body))
  IN UserStep(IF Passed(r) THEN updateProfile(Enter(r)) ELSE Rejected(r))

(* router.put('/change-password', authenticate, changePassword) *)
PutChangePassword(hdr, body, salt) ==
  LET r == authRouteGate(Request("PUT /api/auth/change-password", extractToken(hdr),
                                 NoTask, body))
  IN UserStep(IF Passed(r) THEN changePassword(Enter(r), salt) ELSE Rejected(r))

(* users router *)
GetUsers(hdr) ==
  LET r == usersRouterUse(Request("GET /api/users", extractToken(hdr), NoTask, NoBody))
  IN UserStep(IF Passed(r) THEN getAllUsers(Enter(r)) ELSE Rejected(r))

GetUserById(hdr, id) ==
  LET r == usersRouterUse(Request("GET /api/users/:id", extractToken(hdr), id, NoBody))
  IN UserStep(IF Passed(r) THEN getUser(Enter(r)) ELSE Rejected(r))

GetUserTasks(hdr, id, query) ==
  LET r == usersRouterUse(Request("GET /api/users/:id/tasks", extractToken(hdr), id, query))
  IN UserStep(IF Passed(r) THEN getUserTasks(Enter(r)) ELSE Rejected(r))

PutDeactivate(hdr) ==
  LET r == usersRouterUse(Request("PUT /api/users/deactivate", extractToken(hdr),
                                  NoTask, NoBody))
  IN UserStep(IF Passed(r) THEN deactivateUser(Enter(r)) ELSE Rejected(r))

(* tasks router *)
GetStats(hdr) ==
  LET r == tasksRouterUse(Request("GET /api/tasks/stats", extractToken(hdr), NoTask, NoBody))
  IN TaskStep(IF Passed(r) THEN getTaskStats(Enter(r)) ELSE RejectedT(r))

GetTasks(hdr, query) ==
  LET r == tasksRouterUse(Request("GET /api/tasks", extractToken(hdr), NoTask, query))
  IN TaskStep(IF Passed(r) THEN getTasks(Enter(r)) ELSE RejectedT(r))

(* router.post('/', validate(taskSchema), createTask) *)
PostTask(hdr, body) ==
  LET validateTask(q) == validate(taskSchema, q)
      r == Then(tasksRouterUse(Request("POST /api/tasks", extractToken(hdr), NoTask, body)),
                validateTask)
      out == IF Passed(r) THEN createTask(Enter(r)) ELSE RejectedT(r)
  IN /\ out.nextTaskId <= MaxTasks + 1
     /\ TaskStep(out)

GetTask(hdr, id) ==
  LET r == tasksRouterUse(Request("GET /api/tasks/:id", extractToken(hdr), id, NoBody))
  IN TaskStep(IF Passed(r) THEN getTask(Enter(r)) ELSE RejectedT(r))

(* router.put('/:id', validate(updateTaskSchema), updateTask) *)
PutTask(hdr, id, body) ==
  LET validateUpdate(q) == validate(updateTaskSchema, q)
      r == Then(tasksRouterUse(Request("PUT /api/tasks/:id", extractToken(hdr), id, body)),
                validateUpdate)
  IN TaskStep(IF Passed(r) THEN updateTask(Enter(r)) ELSE RejectedT(r))

DeleteTask(hdr, id) ==
  LET r == tasksRouterUse(Request("DELETE /api/tasks/:id", extractToken(hdr), id, NoBody))
  IN TaskStep(IF Passed(r) THEN deleteTask(Enter(r)) ELSE RejectedT(r))

Idle == Request("none", NoToken, NoTask, NoBody)

(* the clock: time passes between two requests *)
Tick ==
  /\ now < MaxTime
  /\ now' = now + 1
  /\ resp' = Idle
  /\ UNCHANGED <<users, tasks, nextTaskId, origin, registered, secret, served, inflight,
                 changed>>

(* ------------------- requests handled concurrently ------------------- *)
(* inflight[p]: the request the p-th concurrent handler is serving, and   *)
(* where it stands: "idle", suspended at an await ("save", "write"), or   *)
(* "done" with the response in req.  created: the handler stored a        *)
(* document.  via: the stage that produced the response.                  *)
Procs == 1..MaxProcs

NoneInFlight == [p \in Procs |-> [stage |-> "idle", req |-> Idle, created |-> FALSE,
                                  via |-> "none"]]

Suspend(p, req, stage) ==
  /\ inflight' = [inflight EXCEPT ![p] = [stage |-> stage, req |-> req,
                                          created |-> FALSE, via |-> "none"]]
  /\ UNCHANGED <<users, tasks, nextTaskId, origin, registered, now, secret, resp, served,
               changed>>

(* register up to its first await that writes: validate, the existence    *)
(* query, and the early return                                            *)
RegisterStart(p, body) ==
  LET r == validate(registerSchema,
                    Request("POST /api/auth/register", NoToken, NoTask, body))
      checked == IF Passed(r) THEN registerCheck(Enter(r)) ELSE r
  IN /\ inflight[p].stage = "idle"
     /\ IF Passed(checked)
        THEN Suspend(p, checked, "save")
        ELSE /\ inflight' = [inflight EXCEPT ![p] = [stage |-> "done", req |-> checked,
                                                     created |-> FALSE, via |-> "check"]]
             /\ resp' = checked
             /\ served' = 1 - served
             /\ UNCHANGED <<users, tasks, nextTaskId, origin, registered, now, secret,
                            changed>>

(* register from user.save() to the response *)
RegisterSave(p, salt) ==
  LET out == registerSave(inflight[p].req, salt)
  IN /\ inflight[p].stage = "save"
     /\ inflight' = [inflight EXCEPT ![p] = [stage |-> "done", req |-> out.res,
                                             created |-> Len(out.users) > Len(users),
                                             via |-> "save"]]
     /\ users' = out.users
     /\ registered' = registeredAfter(out.res)
     /\ resp' = out.res
     /\ served' = 1 - served
     /\ UNCHANGED <<tasks, nextTaskId, origin, now, secret, changed>>

(* updateTask up to its permission query: authenticate, validate, findOne *)
UpdateTaskFind(p, hdr, id, body) ==
  LET validateUpdate(q) == validate(updateTaskSchema, q)
      r == Then(tasksRouterUse(Request("PUT /api/tasks/:id", extractToken(hdr), id, body)),
                validateUpdate)
      found == IF Passed(r) THEN updateTaskFind(Enter(r)) ELSE r
  IN /\ inflight[p].stage = "idle"
     /\ IF Passed(found)
        THEN Suspend(p, found, "write")
        ELSE /\ inflight' = [inflight EXCEPT ![p] = [stage |-> "done", req |-> found,
                                                     created |-> FALSE, via |-> "check"]]
             /\ resp' = found
             /\ served' = 1 - served
             /\ UNCHANGED <<users, tasks, nextTaskId, origin, registered, now, secret,
                            changed>>

(* updateTask from findByIdAndUpdate to the response *)
UpdateTaskWrite(p) ==
  LET out == updateTaskWrite(inflight[p].req)
  IN /\ inflight[p].stage = "write"
     /\ inflight' = [inflight EXCEPT ![p] = [stage |-> "done", req |-> out.res,
                                             created |-> FALSE, via |-> "write"]]
     /\ tasks' = out.tasks
     /\ nextTaskId' = out.nextTaskId
     /\ origin' = out.origin
     /\ resp' = out.res
     /\ served' = 1 - served
     /\ UNCHANGED <<users, registered, now, secret, changed>>

(* ------------------------- requests received ------------------------- *)
NoHeader == [scheme |-> "none", token |-> NoToken]

(* Authorization headers: absent, 'Bearer ' alone, and a token with or    *)
(* without the 'Bearer ' prefix                                           *)
Headers(toks) ==
  {NoHeader, [scheme |-> "Bearer", token |-> NoToken]}
    \cup {[scheme |-> "Bearer", token |-> t] : t \in toks}
    \cup {[scheme |-> "raw", token |-> t] : t \in {k \in toks : k.sig = "malformed"}}

(* tokens signed by this service up to now, and tampered or malformed     *)
(* variants of them                                                       *)
TokensUpToNow ==
  {[userId |-> u, exp |-> e, sig |-> g] :
     u \in 1..MaxUsers, e \in JWT_EXPIRES_IN..(now + JWT_EXPIRES_IN),
     g \in {"good", "bad"}}
    \cup {[userId |-> 1, exp |-> now + JWT_EXPIRES_IN, sig |-> "malformed"]}

(* an unexpired token of each user id *)
FreshTokens == {[userId |-> u, exp |-> now + JWT_EXPIRES_IN, sig |-> "good"] :
                  u \in 1..(MaxUsers + 1)}

RegisterBodies ==
  {[username |-> n, email |-> e, password |-> p, firstName |-> "Al"] :
     n \in Usernames, e \in Emails, p \in Passwords}
    \cup {[username |-> Username(1), email |-> Email(1), firstName |-> "Al"]}

LoginBodies ==
  {[email |-> e, password |-> p] : e \in Emails, p \in Passwords}
    \cup {[email |-> Email(1)]}

ProfileBodies == {[firstName |-> "Al"], [isActive |-> TRUE]}

PasswordBodies == {[currentPassword |-> "secret1", newPassword |-> "secret1"]}

Salts == {"s1"}

(* ------------------------- the auth service -------------------------- *)
Init ==
  /\ users = <<>>
  /\ tasks = <<>>
  /\ nextTaskId = 1
  /\ origin = <<>>
  /\ registered = {}
  /\ now = 0
  /\ secret \in BOOLEAN
  /\ resp = Idle
  /\ served = 0
  /\ inflight = NoneInFlight
  /\ changed = {}

NextAuth ==
  \/ \E b \in RegisterBodies, salt \in Salts : PostRegister(b, salt)
  \/ \E b \in LoginBodies : PostLogin(b)
  \/ \E h \in Headers(TokensUpToNow) : GetProfile(h)
  \/ \E h \in Headers(FreshTokens) : PutDeactivate(h)
  \/ \E h \in Headers(FreshTokens), b \in ProfileBodies : PutProfile(h, b)
  \/ \E h \in Headers(FreshTokens), b \in PasswordBodies, salt \in Salts :
       PutChangePassword(h, b, salt)
  \/ Tick

SpecAuth == Init /\ [][NextAuth]_vars

(* ------------------------- the task service -------------------------- *)
(* the users collection after SeedUsers registrations *)
seededUser(i) ==
  [username |-> Username(i), email |-> Email(i), password |-> hash("secret1", "s1"),
   firstName |-> "Al", isActive |-> TRUE, lastLogin |-> Null]

InitTask ==
  /\ users = [i \in 1..SeedUsers |-> seededUser(i)]
  /\ tasks = <<>>
  /\ nextTaskId = 1
  /\ origin = <<>>
  /\ registered = {[user |-> i, email |-> Email(i), password |-> "secret1"] :
                     i \in 1..SeedUsers}
  /\ now = 0
  /\ secret = TRUE
  /\ resp = Idle
  /\ served = 0
  /\ inflight = NoneInFlight
  /\ changed = {}

Bearer(u) == [scheme |-> "Bearer", token |-> jwtSign(u)]

TaskHeaders == {NoHeader} \cup {Bearer(u) : u \in 1..SeedUsers}

CreateBodies ==
  {[title |-> "T"], [priority |-> "high"]}
    \cup {[title |-> "T", assignedTo |-> u] : u \in 1..(SeedUsers + 1)}

UpdateBodies ==
  {[status |-> "completed"], [status |-> "in_progress"], [status |-> "done"],
   [completedAt |-> 0], [completedAt |-> Null]}
    \cup {[assignedTo |-> u] : u \in 1..SeedUsers}
    \cup {[createdBy |-> u] : u \in 1..SeedUsers}

(* query strings of GET /api/tasks and of GET /api/users/:id/tasks *)
TaskQueries ==
  {NoBody, [status |-> "completed"], [search |-> "T2"],
   [assignedTo |-> 2, createdBy |-> 1, priority |-> "medium"]}
    \cup {[assignedTo |-> u] : u \in 1..SeedUsers}
    \cup {[createdBy |-> u] : u \in 1..SeedUsers}

UserTaskQueries == {NoBody, [status |-> "pending"]}

(* the read routes, over tasks of every creator and assignee *)
NextRead ==
  \/ \E h \in TaskHeaders, q \in TaskQueries : GetTasks(h, q)
  \/ \E h \in TaskHeaders : GetStats(h)
  \/ \E h \in TaskHeaders, id \in 1..(MaxTasks + 1) : GetTask(h, id)
  \/ \E h \in TaskHeaders, id \in 1..(SeedUsers + 1) : GetUserById(h, id)
  \/ \E h \in TaskHeaders, id \in 1..(SeedUsers + 1), q \in UserTaskQueries :
       GetUserTasks(h, id, q)
  \/ \E h \in TaskHeaders, b \in CreateBodies : PostTask(h, b)
  \/ \E h \in TaskHeaders, id \in 1..(MaxTasks + 1) :
       PutTask(h, id, [status |-> "completed"])
  \/ \E h \in TaskHeaders, id \in 1..(MaxTasks + 1) : DeleteTask(h, id)

SpecRead == InitTask /\ [][NextRead]_vars

NextTask ==
  \/ \E h \in TaskHeaders, b \in CreateBodies : PostTask(h, b)
  \/ \E h \in TaskHeaders, id \in 1..(MaxTasks + 1) : GetTask(h, id)
  \/ \E h \in TaskHeaders, id \in 1..(MaxTasks + 1), b \in UpdateBodies : PutTask(h, id, b)
  \/ \E h \in TaskHeaders, id \in 1..(MaxTasks + 1) : DeleteTask(h, id)

SpecTask == InitTask /\ [][NextTask]_vars

(* ----------------------- changes of password ------------------------ *)
(* registered users who log in, change their password, use their tokens   *)
(* and deactivate their account, while time passes                        *)
InitPassword ==
  /\ users = [i \in 1..MaxUsers |-> seededUser(i)]
  /\ tasks = <<>>
  /\ nextTaskId = 1
  /\ origin = <<>>
  /\ registered = {[user |-> i, email |-> Email(i), password |-> "secret1"] :
                     i \in 1..MaxUsers}
  /\ now = 0
  /\ secret = TRUE
  /\ resp = Idle
  /\ served = 0
  /\ inflight = NoneInFlight
  /\ changed = {}

ChangeBodies ==
  {[currentPassword |-> c, newPassword |-> n] : c \in Passwords, n \in Passwords}

NextPassword ==
  \/ \E b \in LoginBodies : PostLogin(b)
  \/ \E h \in Headers(TokensUpToNow) : GetProfile(h)
  \/ \E h \in Headers(FreshTokens), b \in ChangeBodies, salt \in Salts :
       PutChangePassword(h, b, salt)
  \/ \E h \in {Bearer(u) : u \in 1..MaxUsers} : PutDeactivate(h)
  \/ Tick

SpecPassword == InitPassword /\ [][NextPassword]_vars

(* ------------------------- the whole service ------------------------- *)
(* every route of the three routers and the health check, each with one   *)
(* well-formed body; the Authorization header is absent, or carries a     *)
(* fresh, an expired or a tampered token                                  *)
OneRegisterBody(i) ==
  [username |-> Username(i), email |-> Email(i), password |-> "secret1", firstName |-> "Al"]

OneLoginBody(i) == [email |-> Email(i), password |-> "secret1"]

OneRegisterBodies == {OneRegisterBody(i) : i \in 1..MaxUsers}

OneLoginBodies == {OneLoginBody(i) : i \in 1..MaxUsers}

GateHeaders ==
  {NoHeader}
    \cup {Bearer(u) : u \in 1..MaxUsers}
    \cup {[scheme |-> "Bearer", token |-> [userId |-> 1, exp |-> now, sig |-> "good"]],
          [scheme |-> "Bearer", token |-> [jwtSign(1) EXCEPT !.sig = "bad"]]}

Next ==
  \/ Health
  \/ \E b \in OneRegisterBodies, salt \in Salts : PostRegister(b, salt)
  \/ \E b \in OneLoginBodies : PostLogin(b)
  \/ \E h \in GateHeaders : GetProfile(h)
  \/ \E h \in GateHeaders : PutProfile(h, [firstName |-> "Al"])
  \/ \E h \in GateHeaders, salt \in Salts :
       PutChangePassword(h, [currentPassword |-> "secret1", newPassword |-> "secret1"], salt)
  \/ \E h \in GateHeaders : GetUsers(h)
  \/ \E h \in GateHeaders, id \in 1..MaxUsers : GetUserById(h, id)
  \/ \E h \in GateHeaders, id \in 1..MaxUsers : GetUserTasks(h, id, NoBody)
  \/ \E h \in GateHeaders : PutDeactivate(h)
  \/ \E h \in GateHeaders : GetStats(h)
  \/ \E h \in GateHeaders : GetTasks(h, NoBody)
  \/ \E h \in GateHeaders : PostTask(h, [title |-> "T"])
  \/ \E h \in GateHeaders, id \in 1..MaxTasks : GetTask(h, id)
  \/ \E h \in GateHeaders, id \in 1..MaxTasks : PutTask(h, id, [status |-> "completed"])
  \/ \E h \in GateHeaders, id \in 1..MaxTasks : DeleteTask(h, id)

Spec == Init /\ [][Next]_vars

(* --------------------- concurrent registrations ---------------------- *)
RaceBodies ==
  {[username |-> n, email |-> e, password |-> "secret1", firstName |-> "Al"] :
     n \in Usernames, e \in Emails}
    \cup {[username |-> Username(1), email |-> Email(1), firstName |-> "Al"]}

NextRegRace ==
  \/ \E p \in Procs, b \in RaceBodies : RegisterStart(p, b)
  \/ \E p \in Procs, salt \in Salts : RegisterSave(p, salt)

SpecRegRace == Init /\ [][NextRegRace]_vars

(* ------------------------- concurrent updates ------------------------ *)
RaceCreates == {[title |-> "T"], [title |-> "T", assignedTo |-> 2]}

RaceUpdates == {[priority |-> "high"], [assignedTo |-> SeedUsers]}

NextTaskRace ==
  \/ \E h \in TaskHeaders, b \in RaceCreates : PostTask(h, b)
  \/ \E p \in Procs, h \in TaskHeaders, id \in 1..MaxTasks, b \in RaceUpdates :
       UpdateTaskFind(p, h, id, b)
  \/ \E p \in Procs : UpdateTaskWrite(p)
  \/ \E h \in TaskHeaders, id \in 1..(MaxTasks + 1) : DeleteTask(h, id)

SpecTaskRace == InitTask /\ [][NextTaskRace]_vars

(* ===================== claims on the task service ==================== *)
TaskIdOps == {"GET /api/tasks/:id", "PUT /api/tasks/:id", "DELETE /api/tasks/:id"}

(* what the controller of r's route answers for the same request on an    *)
(* id that was never allocated                                            *)
AnswerForMissingId(r) ==
  LET q == Enter([Request(r.op, r.tok, nextTaskId, r.body) EXCEPT !.user = r.user])
  IN CASE r.op = "GET /api/tasks/:id" -> getTask(q).res
       [] r.op = "PUT /api/tasks/:id" -> updateTask(q).res
       [] r.op = "DELETE /api/tasks/:id" -> deleteTask(q).res

SameAnswer(r1, r2) ==
  /\ r1.status = r2.status
  /\ r1.msg = r2.msg
  /\ r1.data = r2.data
  /\ r1.token = r2.token

Outsider(task, u) == task.assignedTo # u /\ task.createdBy # u

(* C1: GET, PUT and DELETE of a task by an authenticated user who is      *)
(* neither its assignedTo nor its createdBy answer 404, leave the tasks   *)
(* unchanged, and answer exactly what the same request answers for an id  *)
(* that matches no task.                                                  *)
C1_OutsiderGetsNotFound ==
  [][(/\ resp'.op \in TaskIdOps
      /\ resp'.ran
      /\ resp'.user # NoUser
      /\ resp'.id \in DOMAIN tasks
      /\ Outsider(tasks[resp'.id], resp'.user))
     => (/\ resp'.status = 404
         /\ tasks' = tasks
         /\ SameAnswer(resp', AnswerForMissingId(resp')))]_vars

C1_Witness ==
  /\ resp.op = "PUT /api/tasks/:id"
  /\ resp.ran
  /\ resp.user # NoUser
  /\ resp.id \in DOMAIN tasks
  /\ Outsider(tasks[resp.id], resp.user)
  /\ resp.status = 404

(* C2: an assignee who is not the creator gets 404 on DELETE and the task *)
(* stays, his PUT succeeds and applies the update, and a task is only     *)
(* ever removed by a DELETE issued by the user who created it.            *)
C2_DeleteIsCreatorOnly ==
  [][/\ (/\ resp'.op = "DELETE /api/tasks/:id"
         /\ resp'.ran
         /\ resp'.id \in DOMAIN tasks
         /\ tasks[resp'.id].assignedTo = resp'.user
         /\ tasks[resp'.id].createdBy # resp'.user)
        => (resp'.status = 404 /\ tasks' = tasks)
     /\ (/\ resp'.op = "PUT /api/tasks/:id"
         /\ resp'.ran
         /\ resp'.id \in DOMAIN tasks
         /\ tasks[resp'.id].assignedTo = resp'.user
         /\ tasks[resp'.id].createdBy # resp'.user)
        => (/\ resp'.status = 200
            /\ resp'.id \in DOMAIN tasks'
            /\ \A k \in DOMAIN resp'.body \cap DOMAIN updateTaskSchema.allowed :
                 tasks'[resp'.id][k] = resp'.body[k])
     /\ \A id \in DOMAIN tasks \ DOMAIN tasks' :
          /\ resp'.op = "DELETE /api/tasks/:id"
          /\ resp'.id = id
          /\ resp'.user = origin[id]]_vars

(* C3: every stored task has completedAt set if and only if its status    *)
(* is completed.                                                          *)
C3_CompletedAtIffCompleted ==
  \A id \in DOMAIN tasks :
    (tasks[id].completedAt # Null) <=> (tasks[id].status = "completed")

(* C4: createdBy of every stored task is the user whose createTask        *)
(* created it.                                                            *)
C4_CreatedByImmutable ==
  \A id \in DOMAIN tasks : tasks[id].createdBy = origin[id]

(* ================= claims on authentication and login ================ *)
PublicOps == {"none", "GET /health", "POST /api/auth/register", "POST /api/auth/login"}

(* the token carries a signature of this service and has not expired *)
Verifies(tok) == tok.sig = "good" /\ now < tok.exp

Rejects(r, statusCode) == r.status = statusCode /\ ~r.ran /\ r.user = NoUser

Proceeds(r) == r.ran /\ r.user = r.tok.userId

(* the decision table of the claim, for the response r to a request on a  *)
(* protected route                                                        *)
DecidedAsClaimed(r) ==
  IF r.tok = NoToken THEN Rejects(r, 401)
  ELSE IF ~Verifies(r.tok) THEN Rejects(r, 401)
  ELSE IF ~UserExists(r.tok.userId) THEN Rejects(r, 404)
  ELSE IF ~users[r.tok.userId].isActive THEN Rejects(r, 403)
  ELSE Proceeds(r)

C6_GateBeforeHandler ==
  [][(resp'.ran /\ resp'.op \notin PublicOps)
     => (/\ resp'.tok # NoToken
         /\ Verifies(resp'.tok)
         /\ resp'.user = resp'.tok.userId
         /\ UserExists(resp'.user)
         /\ users[resp'.user].isActive)]_vars

C6_Witness ==
  /\ resp.op = "DELETE /api/tasks/:id"
  /\ resp.ran
  /\ resp.status = 200
  /\ resp.user # NoUser

(* C7: a correctly signed token presented after its expiry is rejected    *)
(* with "Token expired", and an unexpired token with a bad signature or   *)
(* structure with "Invalid token".                                        *)
C7_ExpiryDistinguished ==
  [][(resp'.op \notin PublicOps /\ secret /\ resp'.tok # NoToken)
     => (/\ (resp'.tok.sig = "good" /\ now >= resp'.tok.exp)
            => (resp'.status = 401 /\ resp'.msg = "Token expired")
         /\ (resp'.tok.sig # "good" /\ now < resp'.tok.exp)
            => (resp'.status = 401 /\ resp'.msg = "Invalid token"))]_vars

(* C8: a login whose email matches no user and a login whose email        *)
(* matches a user but whose password does not verify get the same answer, *)
(* 401 "Invalid email or password".                                       *)
C8_LoginUniformError ==
  [][(resp'.op = "POST /api/auth/login" /\ resp'.ran)
     => LET b == resp'.body
            u == findUserByEmail(b.email)
        IN (u = NoUser \/ ~comparePassword(b.password, users[u].password))
           => (resp'.status = 401 /\ resp'.msg = "Invalid email or password")]_vars

Deactivated(u) == UserExists(u) /\ ~users[u].isActive

LoginOfDeactivated(r) ==
  /\ r.op = "POST /api/auth/login"
  /\ r.ran
  /\ Deactivated(findUserByEmail(r.body.email))

TokenOfDeactivated(r) ==
  /\ r.op \notin PublicOps
  /\ r.tok.sig = "good"
  /\ Deactivated(r.tok.userId)

NeverReactivatedNorRemoved ==
  /\ Len(users') >= Len(users)
  /\ \A u \in 1..Len(users) : Deactivated(u) => ~users'[u].isActive

(* C9 as stated: once a user is deactivated, every login with his email   *)
(* and every protected request carrying a token issued to him answer 403; *)
(* no step reactivates or removes a user.                                 *)
C9_AsStated ==
  [][/\ LoginOfDeactivated(resp') => resp'.status = 403
     /\ TokenOfDeactivated(resp') => Rejects(resp', 403)
     /\ NeverReactivatedNorRemoved]_vars

(* C9 amended: as stated, except that a token of the deactivated user     *)
(* that has expired is rejected with 401 (and an unexpired one with 403). *)
C9_DeactivatedStaysOut ==
  [][/\ LoginOfDeactivated(resp')
        => (resp'.status = 403 /\ resp'.token = NoToken /\ users' = users)
     /\ TokenOfDeactivated(resp')
        => IF now < resp'.tok.exp THEN Rejects(resp', 403) ELSE Rejects(resp', 401)
     /\ NeverReactivatedNorRemoved]_vars

C9_Witness ==
  /\ resp.op = "POST /api/auth/login"
  /\ resp.ran
  /\ Deactivated(findUserByEmail(resp.body.email))
  /\ comparePassword(resp.body.password, users[findUserByEmail(resp.body.email)].password)
  /\ resp.status = 403

(* authenticate binds user u for a request that carries token t *)
AcceptsAs(t, u) ==
  LET r == authenticate(Request("GET /api/auth/profile", t, NoTask, NoBody))
  IN Passed(r) /\ r.user = u

LoginWith(r, c) ==
  /\ r.op = "POST /api/auth/login"
  /\ r.ran
  /\ r.body.email = c.email
  /\ r.body.password = c.password

(* C10: a login with the email and password of a registration that        *)
(* succeeded (no password change or deactivation since) answers 200,      *)
(* stamps lastLogin, and returns a token that authenticate accepts and    *)
(* resolves to that user.                                                 *)
C10_RegisterThenLogin ==
  [][\A c \in registered :
       LoginWith(resp', c)
       => (/\ resp'.status = 200
           /\ users'[c.user].lastLogin = now
           /\ \A t \in {resp'.token} : AcceptsAs(t, c.user)')]_vars

C10_Witness ==
  \E c \in registered :
    /\ LoginWith(resp, c)
    /\ resp.status = 200
    /\ users[c.user].lastLogin = now
    /\ AcceptsAs(resp.token, c.user)

(* ====================== claims on registration ======================= *)
RegisterDone(p) ==
  /\ inflight[p].stage = "done"
  /\ inflight[p].req.op = "POST /api/auth/register"
  /\ inflight[p].req.ran

ConflictAnswer(r) ==
  /\ r.status = 400
  /\ r.msg = "User with this email or username already exists"
  /\ r.token = NoToken

(* C11: of two register requests with the same email handled             *)
(* concurrently, whatever the order of their existence queries and        *)
(* inserts, at most one stores a user; a token is returned only by one    *)
(* that stored its user; and one that stored none is answered with the    *)
(* Conflict answer of the pre-check.                                      *)
C11_ConcurrentRegister ==
  \A p \in Procs, q \in Procs :
    (/\ p # q
     /\ RegisterDone(p)
     /\ RegisterDone(q)
     /\ inflight[p].req.body.email = inflight[q].req.body.email)
    => (/\ ~(inflight[p].created /\ inflight[q].created)
        /\ Cardinality({i \in 1..Len(users) :
                          users[i].email = inflight[p].req.body.email}) <= 1
        /\ inflight[p].req.token # NoToken
             => (inflight[p].created /\ inflight[p].req.status = 201)
        /\ ~inflight[p].created => ConflictAnswer(inflight[p].req))

C11_Witness ==
  \E p \in Procs, q \in Procs :
    /\ p # q
    /\ RegisterDone(p)
    /\ RegisterDone(q)
    /\ inflight[p].req.body.email = inflight[q].req.body.email
    /\ inflight[p].created
    /\ inflight[p].req.status = 201
    /\ inflight[q].via = "save"
    /\ ~inflight[q].created
    /\ ConflictAnswer(inflight[q].req)

(* C12: a register request answered while a stored user already has its  *)
(* email or its username is answered with Conflict and stores no user;    *)
(* and no two stored users share an email or share a username.            *)
C12_RegisterConflict ==
  [][/\ (/\ served' # served
          /\ resp'.op = "POST /api/auth/register"
          /\ resp'.ran
          /\ \E i \in 1..Len(users) : \/ users[i].email = resp'.body.email
                                       \/ users[i].username = resp'.body.username)
         => (ConflictAnswer(resp') /\ users' = users)
      /\ \A i \in 1..Len(users'), j \in 1..Len(users') :
           i # j => (/\ users'[i].email # users'[j].email
                     /\ users'[i].username # users'[j].username)]_vars

C12_Witness ==
  /\ resp.op = "POST /api/auth/register"
  /\ resp.ran
  /\ ConflictAnswer(resp)
  /\ \E p \in Procs : inflight[p].req = resp /\ inflight[p].via = "check"
  /\ \E i \in 1..Len(users) : /\ users[i].username = resp.body.username
                               /\ users[i].email # resp.body.email

(* ======================== claims on createTask ======================= *)
(* C13: createTask stores a task whose createdBy is the authenticated     *)
(* caller and whose assignedTo is the requested assignee, or the caller   *)
(* when none is requested, both existing users; when the requested        *)
(* assignee matches no user it answers 404 and stores nothing.            *)
C13_CreateTaskReferences ==
  [][(resp'.op = "POST /api/tasks" /\ resp'.ran)
     => LET b == resp'.body
            wanted == IF "assignedTo" \in DOMAIN b THEN b.assignedTo ELSE resp'.user
        IN IF ~UserExists(wanted)
           THEN resp'.status = 404 /\ tasks' = tasks
           ELSE /\ resp'.status = 201
                /\ DOMAIN tasks' = DOMAIN tasks \cup {resp'.id}
                /\ resp'.id \notin DOMAIN tasks
                /\ tasks'[resp'.id].createdBy = resp'.user
                /\ tasks'[resp'.id].assignedTo = wanted
                /\ UserExists(tasks'[resp'.id].createdBy)
                /\ UserExists(tasks'[resp'.id].assignedTo)
                /\ \A id \in DOMAIN tasks : tasks'[id] = tasks[id]]_vars

C13_Witness ==
  /\ resp.op = "POST /api/tasks"
  /\ resp.ran
  /\ resp.status = 201
  /\ "assignedTo" \in DOMAIN resp.body
  /\ resp.id \in DOMAIN tasks
  /\ tasks[resp.id].assignedTo = resp.body.assignedTo
  /\ tasks[resp.id].assignedTo # resp.user
  /\ tasks[resp.id].createdBy = resp.user

(* ======================= claims on visibility ======================== *)
(* C14: every task GET /api/tasks returns (and counts in its total) to    *)
(* user u is assigned to u or created by u, whatever the query's status,  *)
(* priority, assignedTo, createdBy and search keys; the keys only narrow   *)
(* the set the same request gets without them.                            *)
C14_GetTasksVisibleOnly ==
  (resp.op = "GET /api/tasks" /\ resp.ran)
  => /\ resp.status = 200
     /\ \A id \in resp.data : id \in DOMAIN tasks /\ visibleTo(tasks[id], resp.user)
     /\ resp.data \subseteq getTasks([resp EXCEPT !.body = NoBody]).res.data
     /\ \A id \in resp.data :
          /\ "assignedTo" \in DOMAIN resp.body => tasks[id].assignedTo = resp.body.assignedTo
          /\ "createdBy" \in DOMAIN resp.body => tasks[id].createdBy = resp.body.createdBy

C14_Witness ==
  /\ resp.op = "GET /api/tasks"
  /\ resp.ran
  /\ resp.status = 200
  /\ "assignedTo" \in DOMAIN resp.body
  /\ resp.body.assignedTo # resp.user
  /\ resp.data = {}
  /\ \E id \in DOMAIN tasks : /\ tasks[id].assignedTo = resp.body.assignedTo
                               /\ ~visibleTo(tasks[id], resp.user)

ReadOps ==
  {"GET /api/tasks", "GET /api/tasks/:id", "GET /api/tasks/stats",
   "GET /api/users/:id", "GET /api/users/:id/tasks"}

(* C15: every task that a read endpoint (getTasks, getTask, getTaskStats, *)
(* getUser, getUserTasks) returns to or counts for user u is assigned to  *)
(* u or created by u.                                                     *)
C15_ReadsVisibleOnly ==
  (resp.op \in ReadOps /\ resp.ran /\ resp.status = 200)
  => \A id \in resp.data : id \in DOMAIN tasks /\ visibleTo(tasks[id], resp.user)

(* ====================== claims on task updates ======================= *)
(* C16: a write that leaves the status of a completed task with           *)
(* completedAt set as it is also leaves its completedAt as it is.         *)
C16_CompletedAtPreserved ==
  [][\A id \in DOMAIN tasks \cap DOMAIN tasks' :
       (/\ tasks[id].status = "completed"
        /\ tasks[id].completedAt # Null
        /\ tasks'[id].status = tasks[id].status)
       => tasks'[id].completedAt = tasks[id].completedAt]_vars

(* C19: the body the controller of PUT /api/tasks/:id receives has only   *)
(* keys that updateTaskSchema declares, and an update changes neither     *)
(* assignedTo nor createdBy of the task, nor its completedAt unless the   *)
(* status changes.                                                        *)
C19_UpdateKeepsUndeclaredFields ==
  [][(resp'.op = "PUT /api/tasks/:id" /\ resp'.ran)
     => /\ DOMAIN resp'.body \subseteq DOMAIN updateTaskSchema.allowed
        /\ \A id \in DOMAIN tasks \cap DOMAIN tasks' :
             /\ tasks'[id].assignedTo = tasks[id].assignedTo
             /\ tasks'[id].createdBy = tasks[id].createdBy
             /\ tasks'[id].status = tasks[id].status
                  => tasks'[id].completedAt = tasks[id].completedAt]_vars

(* C17: when an updateTask of user u applies its write, the task exists   *)
(* and is created by or assigned to u at that moment, whatever other      *)
(* requests ran since its permission query; and it answers success only   *)
(* when it updated a task.                                                *)
C17_UpdateChecksAtWrite ==
  [][\A p \in Procs :
       (inflight[p].stage = "write" /\ inflight'[p].stage = "done")
       => LET r == inflight'[p].req
          IN /\ tasks' # tasks
                  => (r.id \in DOMAIN tasks /\ visibleTo(tasks[r.id], r.user))
             /\ r.status = 200
                  => (/\ r.id \in DOMAIN tasks
                      /\ visibleTo(tasks[r.id], r.user)
                      /\ r.data = {r.id})]_vars

(* ================== claims on failed register / login ================ *)
(* C18: a register or login request that returns no token leaves the      *)
(* users collection as it was: no user stored, no lastLogin changed,      *)
(* also when JWT_SECRET is not configured.                                *)
C18_ErrorLeavesUsersUnchanged ==
  [][(/\ resp'.op \in {"POST /api/auth/register", "POST /api/auth/login"}
      /\ resp'.token = NoToken)
     => users' = users]_vars

(* ==================== claims on changePassword ======================= *)
ChangePasswordRan(r) == r.op = "PUT /api/auth/change-password" /\ r.ran

LoginOf(r, u) ==
  /\ r.op = "POST /api/auth/login"
  /\ r.ran
  /\ r.body.email = users[u].email

(* the token was signed by this service no later than time t *)
IssuedBy(tok, t) == tok.sig = "good" /\ tok.exp - JWT_EXPIRES_IN <= t

(* C20: changePassword replaces the stored credential exactly when the    *)
(* supplied current password verifies against it, and otherwise fails     *)
(* and leaves it; after a successful change (of an account still active)  *)
(* a login with the old password gets 401 "Invalid email or password", a  *)
(* login with the new one succeeds, and a token issued before the change  *)
(* is accepted by authenticate until it expires.                          *)
C20_ChangePassword ==
  [][/\ ChangePasswordRan(resp')
        => LET u == resp'.user
               b == resp'.body
           IN IF comparePassword(b.currentPassword, users[u].password)
              THEN /\ resp'.status = 200
                   /\ comparePassword(b.newPassword, users'[u].password)
                   /\ b.currentPassword # b.newPassword
                        => ~comparePassword(b.currentPassword, users'[u].password)
                   /\ \A v \in 1..Len(users) : v # u => users'[v] = users[v]
              ELSE resp'.status = 400 /\ users' = users
     /\ \A c \in changed :
          users[c.user].isActive
          => /\ (LoginOf(resp', c.user) /\ resp'.body.password = c.new)
                => (/\ resp'.status = 200
                    /\ \A t \in {resp'.token} : AcceptsAs(t, c.user)')
             /\ (LoginOf(resp', c.user) /\ resp'.body.password = c.old /\ c.old # c.new)
                => (/\ resp'.status = 401
                    /\ resp'.msg = "Invalid email or password"
                    /\ resp'.token = NoToken)
             /\ (/\ resp'.op \notin PublicOps
                 /\ resp'.tok.userId = c.user
                 /\ IssuedBy(resp'.tok, c.at)
                 /\ now < resp'.tok.exp)
                => Proceeds(resp')]_vars

C20_Witness ==
  \E c \in changed :
    /\ c.old # c.new
    /\ users[c.user].isActive
    /\ LoginOf(resp, c.user)
    /\ resp.body.password = c.old
    /\ resp.status = 401

====
